---- MODULE Spec2Model ----
(***************************************************************************)
(* Model of SolutionValidator (base_case_verification.py): the distance    *)
(* provider with its persistent cache, and validate_solution, the pass     *)
(* that walks every route of a solution and accumulates errors.            *)
(*                                                                         *)
(* Conventions                                                             *)
(*  - A location key is the sequence of its characters, so that            *)
(*    str.startswith and the f-string cache key are computed, not assumed. *)
(*  - Distances are whole kilometres.  All registered locations lie on one *)
(*    meridian, where the haversine formula reduces to R * |dlat|.         *)
(*  - A route is the parsed row of solution.csv (RouteSequence and         *)
(*    DemandsSatisfied already split on "-", every VehicleId one of        *)
(*    vehicles.csv): rows on which validate_solution itself raises are     *)
(*    outside the model.                                                   *)
(*  - self.locations also holds the depots under their int ids; a stop is  *)
(*    always a str, which no int key equals, so only the str keys appear.  *)
(***************************************************************************)
EXTENDS Integers, Sequences, FiniteSets, TLC

VARIABLES
    solution,         \* self.solution_df: the routes, in input order
    distance_method,  \* self.distance_method
    cache_file,       \* the persisted store behind self.cache_file
    distance_cache,   \* self.distance_cache
    errors,           \* validate_solution: errors
    visited_clients,  \* validate_solution: visited_clients
    pc,               \* position inside validate_solution
    idx,              \* index of the route being processed (1-based)
    i,                \* check 3: index of the current pair (0-based)
    total_distance,   \* check 3: total_distance
    result,           \* the returned dict
    \* history variables, read by the properties only
    err_idx,          \* for each entry of errors, the route index that emitted it (0: coverage)
    checks_run,       \* the checks evaluated so far, as <<route index, check>>
    pair_log,         \* check 3: what happened to each pair
    saves,            \* number of writes of the persisted store
    calls             \* log of the calculate_distance calls

vars == <<solution, distance_method, cache_file, distance_cache, errors,
          visited_clients, pc, idx, i, total_distance, result,
          err_idx, checks_run, pair_log, saves, calls>>

-----------------------------------------------------------------------------
(* Bounds of the model *)

MaxStops == 3       \* longest RouteSequence of the single-route inputs
MaxDemands == 2     \* longest DemandsSatisfied list
MaxServed == 2      \* largest declared ClientsServed
MaxRoutes == 2      \* most routes of a multi-route solution
MaxCalls == 3       \* most calculate_distance calls of a call sequence

-----------------------------------------------------------------------------
(* Data: the registry built by __init__ from the input files *)

CDA  == <<"C", "D", "A">>
C001 == <<"C", "0", "0", "1">>
C002 == <<"C", "0", "0", "2">>
C009 == <<"C", "0", "0", "9">>     \* client-shaped key of no client record
N1   == <<"1">>                    \* a depot written by its numeric id

DepotAliases == { <<"C", "D", "A">>, <<"C", "D", "B">>, <<"C", "D", "C">> }

\* self.locations: latitude of every str key (one meridian).  C002 carries a
\* latitude outside [-90, 90]: haversine computes with it, geodesic() raises.
locations == (CDA :> 0) @@ (C001 :> 1) @@ (C002 :> 91)

\* self.client_demands
client_demands == (C001 :> 5) @@ (C002 :> 3)

\* self.vehicle_specs
vehicle_specs ==
    (1 :> [capacity |-> 10, range |-> 25000]) @@
    (2 :> [capacity |-> 5, range |-> 222])

\* int(vehicle_id.replace("VEH", ""))
VehicleNumber(vehicle_id) ==
    CASE vehicle_id = "VEH1" -> 1
      [] vehicle_id = "VEH2" -> 2

Abs(x) == IF x < 0 THEN -x ELSE x

Outcome(raised, value) == [raised |-> raised, value |-> value]

-----------------------------------------------------------------------------
(* Distance strategies *)

earth_radius == 6371

\* kilometres per degree of arc: earth_radius * pi / 180, pi taken as 355/113
KmPerDegree == (earth_radius * 355) \div (113 * 180)

\* kilometres per degree of latitude on the WGS-84 ellipsoid near the equator
GeodesicKmPerDegree == 110

\* haversine_distance: self.locations[...] raises KeyError for an unknown key
haversine_distance(loc1, loc2) ==
    IF loc1 \notin DOMAIN locations \/ loc2 \notin DOMAIN locations
    THEN Outcome(TRUE, 0)
    ELSE Outcome(FALSE, KmPerDegree * Abs(locations[loc2] - locations[loc1]))

\* geopy_distance: geodesic() raises ValueError for a latitude outside [-90, 90]
geopy_distance(loc1, loc2) ==
    IF loc1 \notin DOMAIN locations \/ loc2 \notin DOMAIN locations
    THEN Outcome(TRUE, 0)
    ELSE IF Abs(locations[loc1]) > 90 \/ Abs(locations[loc2]) > 90
    THEN Outcome(TRUE, 0)
    ELSE Outcome(FALSE, GeodesicKmPerDegree * Abs(locations[loc2] - locations[loc1]))

\* What one request to the routing service can produce.
ServiceMeters == {150000}
ServiceFailures == {"raise", "malformed", "no_routes", "empty_routes"}
ServiceOutcomes ==
    {[kind |-> k, meters |-> 0] : k \in ServiceFailures} \cup
    {[kind |-> "ok", meters |-> m] : m \in ServiceMeters}
NoService == [kind |-> "none", meters |-> 0]

\* osrm_distance without the fallback of the else branch and of the except clause
osrm_distance_NoFallback(loc1, loc2, svc) ==
    IF loc1 \notin DOMAIN locations \/ loc2 \notin DOMAIN locations
    THEN Outcome(TRUE, 0)
    ELSE IF svc.kind = "ok"
    THEN Outcome(FALSE, svc.meters \div 1000)
    ELSE Outcome(TRUE, 0)

\* osrm_distance, given what the service answers
osrm_distance(loc1, loc2, svc) ==
    IF loc1 \notin DOMAIN locations \/ loc2 \notin DOMAIN locations
    THEN Outcome(TRUE, 0)
    ELSE IF svc.kind \in {"raise", "malformed"}
    THEN haversine_distance(loc1, loc2)                  \* except Exception
    ELSE IF svc.kind = "ok"
    THEN Outcome(FALSE, svc.meters \div 1000)
    ELSE haversine_distance(loc1, loc2)                  \* no "routes", or empty

Methods == {"haversine", "geopy", "osrm", "other"}

\* f"{loc1}_{loc2}_{self.distance_method}"
CacheKey(loc1, loc2, method) == loc1 \o <<"_">> \o loc2 \o <<"_">> \o <<method>>

EmptyCache == [k \in {} |-> 0]

\* dict item assignment
Store(cache, key, value) == [k \in DOMAIN cache \cup {key} |-> IF k = key THEN value ELSE cache[k]]

\* the strategy selected by self.distance_method
Strategy(method, loc1, loc2, svc) ==
    CASE method = "haversine" -> haversine_distance(loc1, loc2)
      [] method = "geopy" -> geopy_distance(loc1, loc2)
      [] method = "osrm" -> osrm_distance(loc1, loc2, svc)
      [] OTHER -> Outcome(TRUE, 0)                         \* ValueError

\* calculate_distance that forgets to store what it computed
calculate_distance_NoStore(cache, method, loc1, loc2, svc) ==
    LET cache_key == CacheKey(loc1, loc2, method)
        out == Strategy(method, loc1, loc2, svc)
    IN IF cache_key \in DOMAIN cache
       THEN [raised |-> FALSE, value |-> cache[cache_key], cache |-> cache,
             invoked |-> FALSE, hit |-> TRUE]
       ELSE [raised |-> out.raised, value |-> out.value, cache |-> cache,
             invoked |-> method \in {"haversine", "geopy", "osrm"}, hit |-> FALSE]

\* calculate_distance: the outcome, the cache afterwards, and whether the
\* strategy function was invoked
calculate_distance(cache, method, loc1, loc2, svc) ==
    LET cache_key == CacheKey(loc1, loc2, method)
        out == Strategy(method, loc1, loc2, svc)
    IN IF cache_key \in DOMAIN cache
       THEN [raised |-> FALSE, value |-> cache[cache_key], cache |-> cache,
             invoked |-> FALSE, hit |-> TRUE]
       ELSE IF out.raised
       THEN [raised |-> TRUE, value |-> 0, cache |-> cache,
             invoked |-> method \in {"haversine", "geopy", "osrm"}, hit |-> FALSE]
       ELSE [raised |-> FALSE, value |-> out.value,
             cache |-> Store(cache, cache_key, out.value),
             invoked |-> TRUE, hit |-> FALSE]

\* the service is asked only on a miss under the osrm strategy, for known keys
ServiceChoices(cache, method, loc1, loc2) ==
    IF method = "osrm" /\ CacheKey(loc1, loc2, method) \notin DOMAIN cache
       /\ loc1 \in DOMAIN locations /\ loc2 \in DOMAIN locations
    THEN ServiceOutcomes
    ELSE {NoService}

\* load_cache: a missing file gives an empty cache
NoFile == [exists |-> FALSE, data |-> EmptyCache]
load_cache(file) == IF file.exists THEN file.data ELSE EmptyCache

\* save_cache: the whole in-memory cache replaces the file
save_cache(cache) == [exists |-> TRUE, data |-> cache]

-----------------------------------------------------------------------------
(* validate_solution *)

Err(kind, route, loc, x, y) == [kind |-> kind, route |-> route, loc |-> loc, x |-> x, y |-> y]

\* the client test without the exclusion of the depot aliases
IsClientStop_AnyC(loc) == Len(loc) > 0 /\ loc[1] = "C"

\* loc.startswith("C") and loc not in ["CDA", "CDB", "CDC"]
IsClientStop(loc) == Len(loc) > 0 /\ loc[1] = "C" /\ loc \notin DepotAliases

\* self.client_demands.get(loc, 0)
ExpectedDemand(loc) == IF loc \in DOMAIN client_demands THEN client_demands[loc] ELSE 0

Range(s) == {s[n] : n \in DOMAIN s}

\* every enumeration order of a set
Orders(S) == {s \in [1..Cardinality(S) -> S] : Range(s) = S}

Repeat(v, n) == [k \in 1..n |-> v]

Route == solution[idx]

\* the end of the loop body: the next row, or the code after the loop
AfterRoute == IF idx < Len(solution) THEN "depot" ELSE "coverage"

\* what a calculate_distance call adds to the call log
LogCall(log, loc1, loc2, svc, r, before) ==
    [n |-> log.n + 1,
     invoked |-> [p \in DOMAIN log.invoked |->
                    IF p = <<loc1, loc2>> /\ r.invoked
                    THEN log.invoked[p] + 1 ELSE log.invoked[p]],
     returned |-> [p \in DOMAIN log.returned |->
                    IF p = <<loc1, loc2>> /\ r.invoked /\ ~r.raised
                    THEN log.returned[p] + 1 ELSE log.returned[p]],
     last |-> [loc1 |-> loc1, loc2 |-> loc2, svc |-> svc.kind, raised |-> r.raised,
               value |-> r.value, hit |-> r.hit, invoked |-> r.invoked,
               before |-> before]]

\* the emission of an error by the route at index r
Emit(e, r) == /\ errors' = Append(errors, e)
              /\ err_idx' = Append(err_idx, r)

NoEmit == UNCHANGED <<errors, err_idx>>

\* Check 1: the route starts and ends at its depot
DepotFails(route) ==
    \/ route.RouteSequence[1] # route.DepotId
    \/ route.RouteSequence[Len(route.RouteSequence)] # route.DepotId

CheckDepot ==
    /\ pc = "depot"
    /\ IF DepotFails(Route)
       THEN Emit(Err("depot", Route.VehicleId, Route.DepotId, 0, 0), idx)
       ELSE NoEmit
    /\ checks_run' = Append(checks_run, <<idx, "depot">>)
    /\ pc' = "capacity"
    /\ UNCHANGED <<solution, distance_method, cache_file, distance_cache,
                   visited_clients, idx, i, total_distance, result,
                   pair_log, saves, calls>>

\* the capacity check skipped once an error is recorded
CheckCapacity_ShortCircuit ==
    /\ pc = "capacity"
    /\ IF errors = <<>> /\ Route.InitialLoad > vehicle_specs[VehicleNumber(Route.VehicleId)].capacity
       THEN Emit(Err("capacity", Route.VehicleId, <<>>, Route.InitialLoad,
                     vehicle_specs[VehicleNumber(Route.VehicleId)].capacity), idx)
       ELSE NoEmit
    /\ checks_run' = Append(checks_run, <<idx, "capacity">>)
    /\ i' = 0
    /\ total_distance' = 0
    /\ pc' = IF Len(Route.RouteSequence) > 1 THEN "range_pair" ELSE "range_total"
    /\ UNCHANGED <<solution, distance_method, cache_file, distance_cache,
                   visited_clients, idx, result, pair_log, saves, calls>>

\* Check 2: vehicle capacity
CapacityFails(route) ==
    route.InitialLoad > vehicle_specs[VehicleNumber(route.VehicleId)].capacity

CheckCapacity ==
    /\ pc = "capacity"
    /\ IF CapacityFails(Route)
       THEN Emit(Err("capacity", Route.VehicleId, <<>>, Route.InitialLoad,
                     vehicle_specs[VehicleNumber(Route.VehicleId)].capacity), idx)
       ELSE NoEmit
    /\ checks_run' = Append(checks_run, <<idx, "capacity">>)
    /\ i' = 0
    /\ total_distance' = 0
    /\ pc' = IF Len(Route.RouteSequence) > 1 THEN "range_pair" ELSE "range_total"
    /\ UNCHANGED <<solution, distance_method, cache_file, distance_cache,
                   visited_clients, idx, result, pair_log, saves, calls>>

\* Check 3, one iteration of the loop over consecutive pairs
PairStatus(from_loc, to_loc, r) ==
    IF from_loc \notin DOMAIN locations THEN "invalid_from"
    ELSE IF to_loc \notin DOMAIN locations THEN "invalid_to"
    ELSE IF r.raised THEN "raised"
    ELSE "measured"

RangePair ==
    /\ pc = "range_pair"
    /\ LET seq == Route.RouteSequence
           from_loc == seq[i + 1]
           to_loc == seq[i + 2]
       IN /\ IF from_loc \notin DOMAIN locations
             THEN /\ Emit(Err("invalid_location", Route.VehicleId, from_loc, 0, 0), idx)
                  /\ pair_log' = Append(pair_log,
                        [idx |-> idx, from |-> from_loc, to |-> to_loc,
                         status |-> "invalid_from", value |-> 0, svc |-> "none",
                         hit |-> FALSE])
                  /\ UNCHANGED <<distance_cache, total_distance>>
             ELSE IF to_loc \notin DOMAIN locations
             THEN /\ Emit(Err("invalid_location", Route.VehicleId, to_loc, 0, 0), idx)
                  /\ pair_log' = Append(pair_log,
                        [idx |-> idx, from |-> from_loc, to |-> to_loc,
                         status |-> "invalid_to", value |-> 0, svc |-> "none",
                         hit |-> FALSE])
                  /\ UNCHANGED <<distance_cache, total_distance>>
             ELSE \E svc \in ServiceChoices(distance_cache, distance_method, from_loc, to_loc) :
                    LET r == calculate_distance(distance_cache, distance_method,
                                                from_loc, to_loc, svc)
                    IN /\ distance_cache' = r.cache
                       /\ pair_log' = Append(pair_log,
                             [idx |-> idx, from |-> from_loc, to |-> to_loc,
                              status |-> PairStatus(from_loc, to_loc, r),
                              value |-> r.value, svc |-> svc.kind, hit |-> r.hit])
                       /\ IF r.raised
                          THEN /\ Emit(Err("distance_error", Route.VehicleId, <<>>, 0, 0), idx)
                               /\ UNCHANGED total_distance
                          ELSE /\ total_distance' = total_distance + r.value
                               /\ NoEmit
          /\ i' = i + 1
          /\ pc' = IF i + 1 < Len(seq) - 1 THEN "range_pair" ELSE "range_total"
    /\ checks_run' = Append(checks_run, <<idx, "pair">>)
    /\ UNCHANGED <<solution, distance_method, cache_file, visited_clients, idx,
                   result, saves, calls>>

\* the range test with >= for >
RangeFails_AtLeast(total, route) ==
    total >= vehicle_specs[VehicleNumber(route.VehicleId)].range

\* Check 3, after the loop: the total against the vehicle's range
RangeFails(total, route) == total > vehicle_specs[VehicleNumber(route.VehicleId)].range

CheckRange ==
    /\ pc = "range_total"
    /\ IF RangeFails(total_distance, Route)
       THEN Emit(Err("exceeds_range", Route.VehicleId, <<>>, total_distance,
                     vehicle_specs[VehicleNumber(Route.VehicleId)].range), idx)
       ELSE NoEmit
    /\ checks_run' = Append(checks_run, <<idx, "range">>)
    /\ pc' = "demand"
    /\ UNCHANGED <<solution, distance_method, cache_file, distance_cache,
                   visited_clients, idx, i, total_distance, result,
                   pair_log, saves, calls>>

\* Check 4: the loop over the stops from position n on, client_idx demands
\* consumed so far; gives the errors appended and the clients added
RECURSIVE DemandLoop(_, _, _)
DemandLoop(route, n, client_idx) ==
    IF n > Len(route.RouteSequence) THEN [errors |-> <<>>, visited |-> {}]
    ELSE LET loc == route.RouteSequence[n]
         IN IF ~IsClientStop(loc) THEN DemandLoop(route, n + 1, client_idx)
            ELSE IF client_idx >= Len(route.DemandsSatisfied)
            THEN LET rest == DemandLoop(route, n + 1, client_idx)
                 IN [errors |-> <<Err("missing_demand", route.VehicleId, loc, 0, 0)>>
                                \o rest.errors,
                     visited |-> rest.visited]
            ELSE LET rest == DemandLoop(route, n + 1, client_idx + 1)
                     actual_demand == route.DemandsSatisfied[client_idx + 1]
                     expected_demand == ExpectedDemand(loc)
                 IN [errors |-> (IF actual_demand # expected_demand
                                 THEN <<Err("incorrect_demand", route.VehicleId, loc,
                                            actual_demand, expected_demand)>>
                                 ELSE <<>>) \o rest.errors,
                     visited |-> {loc} \cup rest.visited]

CheckDemand ==
    /\ pc = "demand"
    /\ LET out == DemandLoop(Route, 1, 0)
       IN /\ errors' = errors \o out.errors
          /\ err_idx' = err_idx \o Repeat(idx, Len(out.errors))
          /\ visited_clients' = visited_clients \cup out.visited
    /\ checks_run' = Append(checks_run, <<idx, "demand">>)
    /\ pc' = "duplicate"
    /\ UNCHANGED <<solution, distance_method, cache_file, distance_cache,
                   idx, i, total_distance, result, pair_log, saves, calls>>

\* route_clients
RouteClients(route) == SelectSeq(route.RouteSequence, IsClientStop)

\* len(route_clients) != len(set(route_clients))
DuplicateFails(route) == Len(RouteClients(route)) # Cardinality(Range(RouteClients(route)))

CheckDuplicate ==
    /\ pc = "duplicate"
    /\ IF DuplicateFails(Route)
       THEN Emit(Err("duplicate", Route.VehicleId, <<>>, 0, 0), idx)
       ELSE NoEmit
    /\ checks_run' = Append(checks_run, <<idx, "duplicate">>)
    /\ pc' = "served"
    /\ UNCHANGED <<solution, distance_method, cache_file, distance_cache,
                   visited_clients, idx, i, total_distance, result,
                   pair_log, saves, calls>>

\* the served count compared with the number of distinct clients
ServedFails_Distinct(route) ==
    Cardinality(Range(SelectSeq(route.RouteSequence, IsClientStop))) # route.ClientsServed

\* len(route_clients) != clients_served
ServedFails(route) == Len(RouteClients(route)) # route.ClientsServed

CheckServed ==
    /\ pc = "served"
    /\ IF ServedFails(Route)
       THEN Emit(Err("served_mismatch", Route.VehicleId, <<>>,
                     Len(RouteClients(Route)), Route.ClientsServed), idx)
       ELSE NoEmit
    /\ checks_run' = Append(checks_run, <<idx, "served">>)
    /\ pc' = AfterRoute
    /\ idx' = IF idx < Len(solution) THEN idx + 1 ELSE idx
    /\ UNCHANGED <<solution, distance_method, cache_file, distance_cache,
                   visited_clients, i, total_distance, result,
                   pair_log, saves, calls>>

\* Check 5: one error per known client no route visited, in the set's order
MissingClients(visited) == DOMAIN client_demands \ visited

CheckCoverage ==
    /\ pc = "coverage"
    /\ \E order \in Orders(MissingClients(visited_clients)) :
          /\ errors' = errors \o [k \in 1..Len(order) |->
                                    Err("not_visited", "", order[k], 0, 0)]
          /\ err_idx' = err_idx \o Repeat(0, Len(order))
    /\ checks_run' = Append(checks_run, <<0, "coverage">>)
    /\ pc' = "save"
    /\ UNCHANGED <<solution, distance_method, cache_file, distance_cache,
                   visited_clients, idx, i, total_distance, result,
                   pair_log, saves, calls>>

\* the cache saved only when the solution is feasible
SaveCache_WhenFeasible ==
    /\ pc = "save"
    /\ cache_file' = IF errors = <<>> THEN [exists |-> TRUE, data |-> distance_cache]
                     ELSE cache_file
    /\ saves' = IF errors = <<>> THEN saves + 1 ELSE saves
    /\ pc' = "return"
    /\ UNCHANGED <<solution, distance_method, distance_cache, errors,
                   visited_clients, idx, i, total_distance, result,
                   err_idx, checks_run, pair_log, calls>>

\* self.save_cache()
SaveCache ==
    /\ pc = "save"
    /\ cache_file' = save_cache(distance_cache)
    /\ saves' = saves + 1
    /\ pc' = "return"
    /\ UNCHANGED <<solution, distance_method, distance_cache, errors,
                   visited_clients, idx, i, total_distance, result,
                   err_idx, checks_run, pair_log, calls>>

\* return {"feasible": len(errors) == 0, "errors": errors}
Verdict(errs) == [feasible |-> Len(errs) = 0, errors |-> errs]

Return ==
    /\ pc = "return"
    /\ result' = Verdict(errors)
    /\ pc' = "done"
    /\ UNCHANGED <<solution, distance_method, cache_file, distance_cache, errors,
                   visited_clients, idx, i, total_distance,
                   err_idx, checks_run, pair_log, saves, calls>>

-----------------------------------------------------------------------------
(* A sequence of calculate_distance calls on one validator *)

StopKeys == {CDA, C001, C002, C009, N1}
CallKeys == {CDA, C002, N1}

Call ==
    /\ pc = "calls"
    /\ calls.n < MaxCalls
    /\ \E loc1 \in CallKeys, loc2 \in CallKeys :
         \E svc \in ServiceChoices(distance_cache, distance_method, loc1, loc2) :
            LET r == calculate_distance(distance_cache, distance_method, loc1, loc2, svc)
            IN /\ distance_cache' = r.cache
               /\ calls' = LogCall(calls, loc1, loc2, svc, r, distance_cache)
    /\ UNCHANGED <<solution, distance_method, cache_file, errors, visited_clients,
                   pc, idx, i, total_distance, result, err_idx, checks_run,
                   pair_log, saves>>

-----------------------------------------------------------------------------
(* Inputs *)

MkRoute(vehicle_id, depot_id, initial_load, route_sequence, clients_served, demands) ==
    [VehicleId |-> vehicle_id, DepotId |-> depot_id, InitialLoad |-> initial_load,
     RouteSequence |-> route_sequence, ClientsServed |-> clients_served,
     DemandsSatisfied |-> demands]

Sequences(n) == UNION {[1..k -> StopKeys] : k \in 1..n}

DemandValues == {0, 3, 5}
DemandLists == UNION {[1..k -> DemandValues] : k \in 1..MaxDemands}

\* a store written by earlier runs
StoredFile ==
    [exists |-> TRUE,
     data |-> (CacheKey(CDA, C001, "haversine") :> 500) @@
              (CacheKey(C002, CDA, "haversine") :> 900) @@
              (CacheKey(CDA, C002, "geopy") :> 700)]
Files == {NoFile, StoredFile}

Input(sol, method, file) == [solution |-> sol, method |-> method, file |-> file]

\* several routes
SmallRoutes ==
    { MkRoute("VEH1", CDA, 5, <<CDA, C001, CDA>>, 1, <<5>>),
      MkRoute("VEH1", CDA, 3, <<CDA, C002, CDA>>, 1, <<3>>),
      MkRoute("VEH1", CDA, 8, <<CDA, C001, C002, CDA>>, 2, <<5, 3>>),
      MkRoute("VEH2", CDA, 5, <<CDA, C001, C002, CDA>>, 2, <<5>>),
      MkRoute("VEH2", CDA, 5, <<CDA, C001, CDA>>, 1, <<5>>),
      MkRoute("VEH2", N1, 11, <<N1, C009, C001, C001>>, 1, <<0, 3, 5>>) }
ShortRoutes ==
    { MkRoute("VEH1", CDA, 5, <<CDA, C001, CDA>>, 1, <<5>>),
      MkRoute("VEH1", CDA, 3, <<CDA, C002, CDA>>, 1, <<3>>) }
Solutions(routes) == UNION {[1..n -> routes] : n \in 0..MaxRoutes}

NoCall == [loc1 |-> <<>>, loc2 |-> <<>>, svc |-> "none", raised |-> FALSE,
           value |-> 0, hit |-> FALSE, invoked |-> FALSE, before |-> EmptyCache]
NoCalls == [n |-> 0,
            invoked |-> [p \in CallKeys \X CallKeys |-> 0],
            returned |-> [p \in CallKeys \X CallKeys |-> 0],
            last |-> NoCall]

\* the validator after __init__, about to run validate_solution
Constructed(inp) ==
    /\ solution = inp.solution
    /\ distance_method = inp.method
    /\ cache_file = inp.file
    /\ distance_cache = load_cache(inp.file)
    /\ errors = <<>>
    /\ visited_clients = {}
    /\ idx = 1
    /\ i = 0
    /\ total_distance = 0
    /\ result = "none"
    /\ err_idx = <<>>
    /\ checks_run = <<>>
    /\ pair_log = <<>>
    /\ saves = 0
    /\ calls = NoCalls

\* the validator after __init__, validate_solution about to run
Start(inp) ==
    /\ Constructed(inp)
    /\ pc = IF Len(inp.solution) = 0 THEN "coverage" ELSE "depot"

\* one route, every stop sequence against every declared demand list
InitDemand ==
    \E seq \in Sequences(MaxStops), dem \in DemandLists :
        Start(Input(<<MkRoute("VEH1", CDA, 5, seq, 1, dem)>>, "haversine", NoFile))

\* one route, every stop sequence under every strategy, store and vehicle
InitRange ==
    \E seq \in Sequences(MaxStops), vehicle_id \in {"VEH1", "VEH2"},
       method \in Methods, file \in Files :
        Start(Input(<<MkRoute(vehicle_id, CDA, 5, seq, 1, <<5>>)>>, method, file))

\* one route, every stop sequence against every declared depot, load and count
InitServed ==
    \E seq \in Sequences(MaxStops), depot_id \in {CDA, N1}, initial_load \in {5, 6},
       clients_served \in 0..MaxServed :
        Start(Input(<<MkRoute("VEH2", depot_id, initial_load, seq, clients_served, <<5>>)>>,
                    "haversine", NoFile))

\* several routes; under the routing service, the short ones
InitMulti ==
    \/ \E sol \in Solutions(SmallRoutes), method \in Methods \ {"osrm"}, file \in Files :
          Start(Input(sol, method, file))
    \/ \E sol \in Solutions(ShortRoutes), file \in Files :
          Start(Input(sol, "osrm", file))

Init == InitDemand \/ InitRange \/ InitServed \/ InitMulti

Next ==
    \/ CheckDepot
    \/ CheckCapacity
    \/ RangePair
    \/ CheckRange
    \/ CheckDemand
    \/ CheckDuplicate
    \/ CheckServed
    \/ CheckCoverage
    \/ SaveCache
    \/ Return

Spec == Init /\ [][Next]_vars

InitCalls ==
    \E method \in Methods, file \in Files :
        /\ Constructed(Input(<<>>, method, file))
        /\ pc = "calls"

NextCalls == Call

SpecCalls == InitCalls /\ [][NextCalls]_vars

-----------------------------------------------------------------------------
(* Vocabulary of the properties, stated from the input and the logs *)

Returned == pc = "done"

KnownClients == DOMAIN client_demands

\* a client stop: the key starts with "C" and is none of CDA, CDB, CDC
ClientShaped(loc) ==
    /\ Len(loc) > 0
    /\ loc[1] = "C"
    /\ loc # <<"C", "D", "A">> /\ loc # <<"C", "D", "B">> /\ loc # <<"C", "D", "C">>

ClientStopsOf(route) == SelectSeq(route.RouteSequence, ClientShaped)

TrueDemand(loc) == IF loc \in KnownClients THEN client_demands[loc] ELSE 0

\* the positions <<route, stop>> of the solution holding the key c
Occurrences(c) ==
    UNION {{<<r, n>> : n \in {m \in DOMAIN solution[r].RouteSequence :
                                solution[r].RouteSequence[m] = c}} :
           r \in DOMAIN solution}

\* the errors the route at index r emitted (r = 0: the coverage pass), of some kinds
Tagged == [n \in 1..Len(errors) |-> [e |-> errors[n], r |-> err_idx[n]]]
ErrorsFrom(r, kinds) ==
    LET sel == SelectSeq(Tagged, LAMBDA t : t.r = r /\ t.e.kind \in kinds)
    IN [n \in 1..Len(sel) |-> sel[n].e]
CountFrom(r, kind) == Len(ErrorsFrom(r, {kind}))

\* the pairs check 3 processed for the route at index r
PairsOf(r) == SelectSeq(pair_log, LAMBDA e : e.idx = r)

RECURSIVE MeasuredSum(_)
MeasuredSum(pairs) ==
    IF pairs = <<>> THEN 0
    ELSE (IF Head(pairs).status = "measured" THEN Head(pairs).value ELSE 0)
         + MeasuredSum(Tail(pairs))

RECURSIVE Concat(_)
Concat(ss) == IF ss = <<>> THEN <<>> ELSE Head(ss) \o Concat(Tail(ss))

VehicleOf(route) == vehicle_specs[VehicleNumber(route.VehicleId)]

-----------------------------------------------------------------------------
(* C1: whenever validate_solution returns feasible = true, every known      *)
(* client occurs exactly once in the whole solution: in the stop sequence  *)
(* of exactly one route, and once in it.                                   *)
C1_FeasibleServesEachClientOnce ==
    (Returned /\ result.feasible) =>
        \A c \in KnownClients : Cardinality(Occurrences(c)) = 1

-----------------------------------------------------------------------------
(* C2: a solution whose every route is closed at its depot, loads no more  *)
(* than the capacity, uses registered stops only, whose measured distances *)
(* sum to no more than the range, declares the true demand of each client  *)
(* stop in order, repeats no client and declares its number of client      *)
(* stops, and whose routes visit every known client, is returned feasible  *)
(* with no error; and feasible is true exactly when the list is empty.     *)
RouteIsClean(r) ==
    LET route == solution[r]
        seq == route.RouteSequence
        stops == ClientStopsOf(route)
    IN /\ seq[1] = route.DepotId /\ seq[Len(seq)] = route.DepotId
       /\ route.InitialLoad <= VehicleOf(route).capacity
       /\ \A n \in DOMAIN seq : seq[n] \in DOMAIN locations
       /\ Len(PairsOf(r)) = Len(seq) - 1
       /\ \A n \in DOMAIN PairsOf(r) : PairsOf(r)[n].status = "measured"
       /\ MeasuredSum(PairsOf(r)) <= VehicleOf(route).range
       /\ Len(stops) <= Len(route.DemandsSatisfied)
       /\ \A k \in DOMAIN stops : route.DemandsSatisfied[k] = TrueDemand(stops[k])
       /\ \A k, m \in DOMAIN stops : stops[k] = stops[m] => k = m
       /\ route.ClientsServed = Len(stops)

SolutionIsClean ==
    /\ \A r \in DOMAIN solution : RouteIsClean(r)
    /\ \A c \in KnownClients : Occurrences(c) # {}

\* C2: feasible is true exactly when the error list is empty, and a clean
\* solution is returned feasible with an empty error list
C2_CleanSolutionIsFeasible ==
    Returned =>
        /\ result.feasible <=> (result.errors = <<>>)
        /\ result.errors = errors
        /\ SolutionIsClean => (result.feasible /\ result.errors = <<>>)

C2_Witness ==
    /\ Returned
    /\ SolutionIsClean
    /\ Len(solution) = 2
    /\ result.feasible

-----------------------------------------------------------------------------
(* C3: the pass emits exactly one "was not visited" error for each known   *)
(* client that is a stop of no route and none for a known client that is a *)
(* stop of some route.                                                     *)
NotVisitedCount(c) ==
    Cardinality({n \in DOMAIN errors :
                    errors[n].kind = "not_visited" /\ errors[n].loc = c})

\* C3: one "was not visited" error per known client that is a stop of no
\* route, and none for a client that is a stop of some route
C3_NotVisitedIffInNoRoute ==
    Returned =>
        \A c \in KnownClients :
            NotVisitedCount(c) = (IF Occurrences(c) = {} THEN 1 ELSE 0)

-----------------------------------------------------------------------------
(* C4, as claimed: over any sequence of calculate_distance calls the       *)
(* strategy function is invoked at most once per ordered pair, and not at  *)
(* all for a key loaded from the store; a later call returns the stored    *)
(* value; a stored entry is never changed or removed.                      *)
PairKey(p) == CacheKey(p[1], p[2], distance_method)
LastKey == CacheKey(calls.last.loc1, calls.last.loc2, distance_method)
LoadedCache == load_cache(cache_file)

LoadedNeverComputed ==
    \A p \in CallKeys \X CallKeys :
        PairKey(p) \in DOMAIN LoadedCache => calls.invoked[p] = 0

StoredValueReturned ==
    (calls.n > 0 /\ LastKey \in DOMAIN calls.last.before) =>
        /\ calls.last.hit
        /\ ~calls.last.invoked
        /\ ~calls.last.raised
        /\ calls.last.value = calls.last.before[LastKey]

EntriesKept ==
    /\ \A k \in DOMAIN calls.last.before :
          k \in DOMAIN distance_cache /\ distance_cache[k] = calls.last.before[k]
    /\ \A k \in DOMAIN LoadedCache :
          k \in DOMAIN distance_cache /\ distance_cache[k] = LoadedCache[k]

\* C4, as claimed: the strategy is invoked at most once per ordered pair,
\* never for a loaded key; stored values are returned and entries are kept
C4_InvokedAtMostOncePerPair ==
    /\ \A p \in CallKeys \X CallKeys : calls.invoked[p] <= 1
    /\ LoadedNeverComputed
    /\ StoredValueReturned
    /\ EntriesKept

(* C4, amended: the strategy function returns a value at most once per     *)
(* ordered pair and is never invoked for a stored key; a call in which it  *)
(* raises stores nothing, so that the next call for the pair invokes it    *)
(* again; a call for a stored key returns the stored value; a stored entry *)
(* is never changed or removed.                                            *)
C4_ReturnsAtMostOncePerPair ==
    /\ \A p \in CallKeys \X CallKeys : calls.returned[p] <= 1
    /\ LoadedNeverComputed
    /\ StoredValueReturned
    /\ (calls.n > 0 /\ calls.last.raised) => distance_cache = calls.last.before
    /\ (calls.n > 0 /\ calls.last.invoked /\ ~calls.last.raised) =>
          /\ LastKey \in DOMAIN distance_cache
          /\ distance_cache[LastKey] = calls.last.value
    /\ EntriesKept

\* a pair computed once through the routing service, then served from the
\* cache although the strategy would now answer otherwise
C4_Witness ==
    /\ pc = "calls"
    /\ distance_method = "osrm"
    /\ calls.last.hit
    /\ calls.returned[<<calls.last.loc1, calls.last.loc2>>] = 1
    /\ calls.last.value # haversine_distance(calls.last.loc1, calls.last.loc2).value

-----------------------------------------------------------------------------
(* C5: under the routing-service strategy, for a pair of registered        *)
(* locations, a request that raises, a malformed body and a body with no   *)
(* or empty "routes" make osrm_distance return the haversine distance of   *)
(* the same pair without raising, and add no error to the list.            *)
C5_ServiceFailureFallsBack ==
    /\ \A n \in DOMAIN pair_log :
          pair_log[n].svc \in {"raise", "malformed", "no_routes", "empty_routes"} =>
             /\ pair_log[n].status = "measured"
             /\ pair_log[n].value =
                  haversine_distance(pair_log[n].from, pair_log[n].to).value
    /\ distance_method = "osrm" =>
          \A n \in DOMAIN errors : errors[n].kind # "distance_error"

C5_Witness ==
    /\ Returned
    /\ \E n \in DOMAIN pair_log : pair_log[n].svc = "empty_routes"
    /\ \E n \in DOMAIN pair_log : pair_log[n].svc = "raise"

-----------------------------------------------------------------------------
(* C6: a pass writes the cache to the store exactly once, after the last   *)
(* route and the coverage check, whatever the verdict, and never earlier.  *)
RECURSIVE Schedule(_)
Schedule(r) ==
    IF r > Len(solution) THEN << <<0, "coverage">> >>
    ELSE << <<r, "depot">>, <<r, "capacity">> >>
         \o Repeat(<<r, "pair">>, Len(solution[r].RouteSequence) - 1)
         \o << <<r, "range">>, <<r, "demand">>, <<r, "duplicate">>, <<r, "served">> >>
         \o Schedule(r + 1)

-----------------------------------------------------------------------------
(* C7: in every route the k-th client stop is checked against the k-th     *)
(* declared demand: one "incorrect demand" error when they differ (the     *)
(* true demand of an unknown client being 0), one "missing demand value"   *)
(* error when the list has no k-th entry, and nothing else.                *)
ExpectedDemandErrors(r) ==
    LET route == solution[r]
        stops == ClientStopsOf(route)
        declared == route.DemandsSatisfied
    IN Concat([k \in 1..Len(stops) |->
                 IF k > Len(declared)
                 THEN <<Err("missing_demand", route.VehicleId, stops[k], 0, 0)>>
                 ELSE IF declared[k] # TrueDemand(stops[k])
                 THEN <<Err("incorrect_demand", route.VehicleId, stops[k],
                            declared[k], TrueDemand(stops[k]))>>
                 ELSE <<>>])

\* C7: the demand errors of each route are those of pairing the k-th client
\* stop with the k-th declared demand
C7_DemandPairing ==
    Returned =>
        \A r \in DOMAIN solution :
            ErrorsFrom(r, {"missing_demand", "incorrect_demand"}) = ExpectedDemandErrors(r)

C7_Witness ==
    /\ Returned
    /\ \E r \in DOMAIN solution :
          /\ Len(ClientStopsOf(solution[r])) = 3
          /\ CountFrom(r, "incorrect_demand") = 1
          /\ CountFrom(r, "missing_demand") = 1

-----------------------------------------------------------------------------
(* C8: in the range check every endpoint of a pair that is missing from    *)
(* the registry produces its own "invalid location" error, every raising   *)
(* distance computation one "distance calculation error"; such pairs add   *)
(* nothing to the total, and one "exceeds range" error is emitted exactly  *)
(* when the measured sum is greater than the range.                        *)
MissingEndpoints(r) ==
    LET seq == solution[r].RouteSequence
    IN {<<k, n>> \in (1..(Len(seq) - 1)) \X {0, 1} : seq[k + n] \notin DOMAIN locations}

RaisedPairs(r) == {n \in DOMAIN PairsOf(r) : PairsOf(r)[n].status = "raised"}

\* C8: every missing endpoint of a pair has its own "invalid location"
\* error, a raising pair one "distance calculation error", and the range
\* error is emitted exactly when the measured sum exceeds the range
C8_EveryMissingEndpointReported ==
    Returned =>
        \A r \in DOMAIN solution :
            /\ CountFrom(r, "invalid_location") = Cardinality(MissingEndpoints(r))
            /\ CountFrom(r, "distance_error") = Cardinality(RaisedPairs(r))
            /\ Len(PairsOf(r)) = Len(solution[r].RouteSequence) - 1
            /\ CountFrom(r, "exceeds_range") =
                 (IF MeasuredSum(PairsOf(r)) > VehicleOf(solution[r]).range THEN 1 ELSE 0)

-----------------------------------------------------------------------------
(* C9: every check of every route is evaluated whatever errors were        *)
(* recorded before, and the returned list is the concatenation, in route   *)
(* order, of each route's errors in check order (depot closure, capacity,  *)
(* range, demands, duplicates, served count), followed by the coverage     *)
(* errors.                                                                 *)
ExpectedDepotErrors(r) ==
    LET route == solution[r]
        seq == route.RouteSequence
    IN IF seq[1] # route.DepotId \/ seq[Len(seq)] # route.DepotId
       THEN <<Err("depot", route.VehicleId, route.DepotId, 0, 0)>>
       ELSE <<>>

ExpectedCapacityErrors(r) ==
    LET route == solution[r]
    IN IF route.InitialLoad > VehicleOf(route).capacity
       THEN <<Err("capacity", route.VehicleId, <<>>, route.InitialLoad,
                  VehicleOf(route).capacity)>>
       ELSE <<>>

\* the errors of check 3, from what happened to each pair
ExpectedRangeErrors(r) ==
    LET route == solution[r]
        pairs == PairsOf(r)
    IN Concat([n \in 1..Len(pairs) |->
                 CASE pairs[n].status = "invalid_from" ->
                        <<Err("invalid_location", route.VehicleId, pairs[n].from, 0, 0)>>
                   [] pairs[n].status = "invalid_to" ->
                        <<Err("invalid_location", route.VehicleId, pairs[n].to, 0, 0)>>
                   [] pairs[n].status = "raised" ->
                        <<Err("distance_error", route.VehicleId, <<>>, 0, 0)>>
                   [] OTHER -> <<>>])
       \o (IF MeasuredSum(pairs) > VehicleOf(route).range
           THEN <<Err("exceeds_range", route.VehicleId, <<>>, MeasuredSum(pairs),
                      VehicleOf(route).range)>>
           ELSE <<>>)

RepeatsAClient(r) ==
    LET stops == ClientStopsOf(solution[r])
    IN \E k, m \in DOMAIN stops : k # m /\ stops[k] = stops[m]

ExpectedDuplicateErrors(r) ==
    IF RepeatsAClient(r)
    THEN <<Err("duplicate", solution[r].VehicleId, <<>>, 0, 0)>>
    ELSE <<>>

ExpectedServedErrors(r) ==
    LET route == solution[r]
    IN IF Len(ClientStopsOf(route)) # route.ClientsServed
       THEN <<Err("served_mismatch", route.VehicleId, <<>>,
                  Len(ClientStopsOf(route)), route.ClientsServed)>>
       ELSE <<>>

ExpectedRouteErrors(r) ==
    ExpectedDepotErrors(r) \o ExpectedCapacityErrors(r) \o ExpectedRangeErrors(r)
    \o ExpectedDemandErrors(r) \o ExpectedDuplicateErrors(r) \o ExpectedServedErrors(r)

\* C9: all checks of all routes are evaluated, and the returned list is the
\* errors in route order, check order within a route, coverage errors last
C9_AllChecksInDiscoveryOrder ==
    Returned =>
        /\ checks_run = Schedule(1)
        /\ result.errors =
             Concat([r \in 1..Len(solution) |-> ExpectedRouteErrors(r)])
             \o ErrorsFrom(0, {"not_visited"})

C9_Witness ==
    /\ Returned
    /\ Len(solution) = 2
    /\ CountFrom(1, "depot") = 1
    /\ CountFrom(1, "served_mismatch") = 1
    /\ CountFrom(2, "capacity") = 1
    /\ CountFrom(2, "duplicate") = 1
    /\ CountFrom(0, "not_visited") = 1

-----------------------------------------------------------------------------
(* C10, as claimed: a route gets one "clients_served mismatch" error       *)
(* exactly when its number of distinct client stops differs from the       *)
(* declared ClientsServed, and one "duplicate client visits" error exactly *)
(* when some client key occurs more than once.                             *)
DuplicateReportedOnce(r) ==
    CountFrom(r, "duplicate") = (IF RepeatsAClient(r) THEN 1 ELSE 0)

\* C10, as claimed: the served count is compared with the number of distinct
\* client stops; a repeated client yields one duplicate error
C10_DistinctClientsAgainstServed ==
    Returned =>
        \A r \in DOMAIN solution :
            /\ CountFrom(r, "served_mismatch") =
                 (IF Cardinality(Range(ClientStopsOf(solution[r]))) # solution[r].ClientsServed
                  THEN 1 ELSE 0)
            /\ DuplicateReportedOnce(r)

(* C10, amended: the mismatch error is emitted exactly when the number of  *)
(* client stops of the sequence, every occurrence of a repeated client     *)
(* counted, differs from the declared ClientsServed; the duplicate error   *)
(* is emitted once however often a client is repeated.                     *)
C10_ClientStopsAgainstServed ==
    Returned =>
        \A r \in DOMAIN solution :
            /\ CountFrom(r, "served_mismatch") =
                 (IF Len(ClientStopsOf(solution[r])) # solution[r].ClientsServed
                  THEN 1 ELSE 0)
            /\ DuplicateReportedOnce(r)

\* one client visited three times by a route that declares one client served
C10_Witness ==
    /\ Returned
    /\ \E r \in DOMAIN solution :
          /\ Len(ClientStopsOf(solution[r])) = 3
          /\ Cardinality(Range(ClientStopsOf(solution[r]))) = 1
          /\ solution[r].ClientsServed = 1
          /\ CountFrom(r, "duplicate") = 1
          /\ CountFrom(r, "served_mismatch") = 1

====
